---- MODULE Spec2Model ----
(***************************************************************************)
(* Model of the emergency response coordinator of src/src/main.py:         *)
(* the assessment engine (_assess_incident), the allocation engine         *)
(* (_allocate_resources), the incident registry (active_incidents, a dict  *)
(* of dict objects) and the coordinator operations process_emergency_call, *)
(* get_incident_status and update_incident_status.                         *)
(*                                                                         *)
(* Python strings that the code takes apart or puts together (the          *)
(* description, the call id, the allocation id, the unit labels) are       *)
(* sequences of one-character strings.  Python floats that are multiples   *)
(* of 0.5 are integers counting half points.                               *)
(***************************************************************************)
EXTENDS Integers, Sequences, FiniteSets, TLC

VARIABLES
    incident,          \* engine harness: the incident under assessment (Optional)
    assessment,        \* engine harness: the assessment computed or supplied (Optional)
    resources,         \* engine harness: the allocation computed (Optional)
    phase,             \* engine harness: position in the assess/allocate pipeline
    active_incidents,  \* self.active_incidents: call id -> reference of an entry dict
    heap,              \* the entry dict objects, by reference
    clock,             \* what datetime.now() returns
    last,              \* the operation that completed last, with its return value
    pc,                \* concurrent callers: position of each thread in its operation
    local,             \* concurrent callers: the operation and local values of each thread
    hist               \* concurrent callers: the operations called so far, in call and return order

vars == <<incident, assessment, resources, phase, active_incidents, heap, clock,
          last, pc, local, hist>>

engineVars == <<incident, assessment, resources, phase>>
registryVars == <<active_incidents, heap>>
threadVars == <<pc, local, hist>>

\* Optional[T]: the empty sequence is None, a one-element sequence holds the value
None == <<>>
Some(v) == <<v>>

----------------------------------------------------------------------------
(* Bounds of the model *)

MaxWords == 3          \* words in a generated description
MaxIndicators == 11    \* length of severity_indicators in the engine harness
MaxCallIndicators == 1 \* length of severity_indicators of the calls of Spec
MaxClock == 1          \* ticks of the wall clock

----------------------------------------------------------------------------
(* Strings as character sequences *)

Min(a, b) == IF a <= b THEN a ELSE b
Max(a, b) == IF a >= b THEN a ELSE b

UpperCase == <<"A","B","C","D","E","F","G","H","I","J","K","L","M",
               "N","O","P","Q","R","S","T","U","V","W","X","Y","Z">>
LowerCase == <<"a","b","c","d","e","f","g","h","i","j","k","l","m",
               "n","o","p","q","r","s","t","u","v","w","x","y","z">>

\* str.lower() on one character
LowerChar(c) ==
    IF \E i \in 1..26 : UpperCase[i] = c
    THEN LowerCase[CHOOSE i \in 1..26 : UpperCase[i] = c]
    ELSE c

\* str.lower()
Lower(s) == [i \in 1..Len(s) |-> LowerChar(s[i])]

\* Python's  word in s  on strings: substring containment
Contains(s, word) ==
    \E i \in 0..(Len(s) - Len(word)) : SubSeq(s, i + 1, i + Len(word)) = word

Digits == <<"0","1","2","3","4","5","6","7","8","9">>

\* str(i) of a non-negative int, as an f-string formats it
RECURSIVE Str(_)
Str(i) == IF i < 10 THEN <<Digits[i + 1]>>
          ELSE Str(i \div 10) \o <<Digits[(i % 10) + 1]>>

\* ' '.join(words)
RECURSIVE Join(_)
Join(words) ==
    IF Len(words) = 0 THEN <<>>
    ELSE IF Len(words) = 1 THEN words[1]
    ELSE words[1] \o <<" ">> \o Join(Tail(words))

----------------------------------------------------------------------------
(* Inputs *)

\* The words descriptions are generated from.  "white" holds the keyword
\* 'hit' inside a word; "Heart", "CRASH" and "Smoke" need lower-casing.
Vocabulary == {
    <<"H","e","a","r","t">>,
    <<"c","h","e","s","t">>,
    <<"p","a","i","n">>,
    <<"C","R","A","S","H">>,
    <<"w","h","i","t","e">>,
    <<"S","m","o","k","e">> }

RECURSIVE WordSeqs(_)
WordSeqs(n) ==
    IF n = 0 THEN {<<>>}
    ELSE LET shorter == WordSeqs(n - 1)
         IN shorter \cup {Append(ws, w) : ws \in {x \in shorter : Len(x) = n - 1},
                                          w \in Vocabulary}

\* 'cardiac event during a fire'
CardiacDuringFire ==
    <<"c","a","r","d","i","a","c"," ","e","v","e","n","t"," ",
      "d","u","r","i","n","g"," ","a"," ","f","i","r","e">>

\* 'burn after car accident': trauma and fire keywords, fire first in the text
BurnAfterAccident ==
    <<"b","u","r","n"," ","a","f","t","e","r"," ","c","a","r"," ",
      "a","c","c","i","d","e","n","t">>

\* the descriptions of the engine harness
Descriptions ==
    {Join(ws) : ws \in WordSeqs(MaxWords)} \cup {CardiacDuringFire, BurnAfterAccident}

\* caller-supplied call identifiers
Id1 == <<"9","1","1","-","1">>
Id2 == <<"9","1","1","-","2">>
CallIds == {Id1, Id2}

\* a list of n severity indicator tags; only its length is read by the code
Indicators(n) == [i \in 1..n |-> "unresponsive"]

\* EmergencyIncident(call_id, timestamp, location, description, severity_indicators)
EmergencyIncident(id, ts, desc, n) ==
    [call_id |-> id, timestamp |-> ts, location |-> "123 Main St",
     description |-> desc, severity_indicators |-> Indicators(n),
     caller_contact |-> "555-0123"]

----------------------------------------------------------------------------
(* Assessment engine: _assess_incident *)

CardiacWords == << <<"c","a","r","d","i","a","c">>, <<"h","e","a","r","t">>,
                   <<"c","h","e","s","t"," ","p","a","i","n">> >>
TraumaWords == << <<"t","r","a","u","m","a">>, <<"a","c","c","i","d","e","n","t">>,
                  <<"h","i","t">>, <<"c","r","a","s","h">> >>
FireWords == << <<"f","i","r","e">>, <<"s","m","o","k","e">>, <<"b","u","r","n">> >>

\* any(word in description_lower for word in words)
AnyWordIn(words, description_lower) ==
    \E k \in 1..Len(words) : Contains(description_lower, words[k])

\* variant: the fire group is tested before the cardiac and trauma groups
KeywordChainFireFirst(description_lower) ==
    IF AnyWordIn(FireWords, description_lower) THEN <<"FIRE", 8>>
    ELSE IF AnyWordIn(CardiacWords, description_lower) THEN <<"CARDIAC", 8>>
    ELSE IF AnyWordIn(TraumaWords, description_lower) THEN <<"TRAUMA", 7>>
    ELSE <<"MEDICAL", 5>>

\* the if/elif chain over the keyword groups: <<incident_type, base_severity>>
KeywordChain(description_lower) ==
    IF AnyWordIn(CardiacWords, description_lower) THEN <<"CARDIAC", 8>>
    ELSE IF AnyWordIn(TraumaWords, description_lower) THEN <<"TRAUMA", 7>>
    ELSE IF AnyWordIn(FireWords, description_lower) THEN <<"FIRE", 8>>
    ELSE <<"MEDICAL", 5>>

\* description_lower = incident.description.lower(), then the chain
\* (the set binds description_lower to its value once)
Classify(description) ==
    CHOOSE cls \in {KeywordChain(description_lower) :
                        description_lower \in {Lower(description)}} : TRUE

\* variant: the indicators lower the severity
RawSeverityMinus(base_severity, indicators) == 2 * base_severity - Len(indicators)

\* base_severity + len(severity_indicators) * 0.5, in half points
RawSeverity(base_severity, indicators) == 2 * base_severity + Len(indicators)

\* variant: max(1, severity), the upper limit forgotten
ClampLowOnly(severity) == Max(2, severity)

\* min(10, max(1, severity)), in half points
Clamp(severity) == Min(20, Max(2, severity))

\* variant: the bands read off round(severity), half points rounded up
PriorityOfRounded(severity) ==
    IF severity + 1 >= 16 THEN "CRITICAL"
    ELSE IF severity + 1 >= 12 THEN "HIGH"
    ELSE IF severity + 1 >= 8 THEN "MEDIUM"
    ELSE "LOW"

\* the priority bands, read off the clamped float severity (half points)
PriorityOf(severity) ==
    IF severity >= 16 THEN "CRITICAL"
    ELSE IF severity >= 12 THEN "HIGH"
    ELSE IF severity >= 8 THEN "MEDIUM"
    ELSE "LOW"

\* variant: the half point rounded up
IntOfRounded(severity) == (severity + 1) \div 2

\* int(severity): truncation toward zero of a positive float (half points)
IntOf(severity) == severity \div 2

_assess_incident(inc) ==
    LET Assessed(cls) ==
            LET severity == Clamp(RawSeverity(cls[2], inc.severity_indicators))
            IN  [incident_id |-> inc.call_id,
                 incident_type |-> cls[1],
                 severity_score |-> IntOf(severity),
                 medical_priority |-> PriorityOf(severity),
                 recommended_response |-> <<"Deploy specialized ", cls[1], " response team">>,
                 estimated_arrival_time |-> "5-8 minutes"]
    IN  CHOOSE a \in {Assessed(cls) : cls \in {Classify(inc.description)}} : TRUE

----------------------------------------------------------------------------
(* Allocation engine: _allocate_resources *)

UnitPrefix == <<"U","n","i","t","-">>
AllocPrefix == <<"A","L","L","O","C","-">>

\* variant: the trauma ambulance threshold is strict
UnitCountsStrict(incident_type, severity_score) ==
    IF incident_type = "CARDIAC"
    THEN [ambulances |-> 2, fire_trucks |-> 0, personnel |-> 6]
    ELSE IF incident_type = "TRAUMA"
    THEN [ambulances |-> IF severity_score > 7 THEN 2 ELSE 1,
          fire_trucks |-> IF severity_score >= 8 THEN 1 ELSE 0,
          personnel |-> IF severity_score >= 8 THEN 8 ELSE 4]
    ELSE IF incident_type = "FIRE"
    THEN [ambulances |-> 2,
          fire_trucks |-> IF severity_score >= 8 THEN 3 ELSE 2,
          personnel |-> 12]
    ELSE [ambulances |-> 1, fire_trucks |-> 0, personnel |-> 2]

\* the ambulances / fire trucks / personnel branch table
UnitCounts(incident_type, severity_score) ==
    IF incident_type = "CARDIAC"
    THEN [ambulances |-> 2, fire_trucks |-> 0, personnel |-> 6]
    ELSE IF incident_type = "TRAUMA"
    THEN [ambulances |-> IF severity_score >= 7 THEN 2 ELSE 1,
          fire_trucks |-> IF severity_score >= 8 THEN 1 ELSE 0,
          personnel |-> IF severity_score >= 8 THEN 8 ELSE 4]
    ELSE IF incident_type = "FIRE"
    THEN [ambulances |-> 2,
          fire_trucks |-> IF severity_score >= 8 THEN 3 ELSE 2,
          personnel |-> 12]
    ELSE [ambulances |-> 1, fire_trucks |-> 0, personnel |-> 2]

\* ambulances * 500 + fire_trucks * 1000 + personnel * 100
EstimatedCost(ambulances, fire_trucks, personnel) ==
    ambulances * 500 + fire_trucks * 1000 + personnel * 100

\* [f'Unit-{i}' for i in range(n)]
DispatchOrder(n) == [k \in 1..n |-> UnitPrefix \o Str(k - 1)]

_allocate_resources(a) ==
    LET c == UnitCounts(a.incident_type, a.severity_score)
    IN  [allocation_id |-> AllocPrefix \o a.incident_id,
         ambulances_required |-> c.ambulances,
         fire_trucks_required |-> c.fire_trucks,
         personnel_required |-> c.personnel,
         estimated_cost |-> EstimatedCost(c.ambulances, c.fire_trucks, c.personnel),
         dispatch_order |-> DispatchOrder(c.ambulances + c.fire_trucks)]

----------------------------------------------------------------------------
(* Incident registry: self.active_incidents, a dict of entry dicts *)

\* the statuses a caller passes to update_incident_status: one of the
\* lifecycle labels, the creation label itself, and a label outside the set
Statuses == {"RESOLVED", "DISPATCHED", "bogus"}

\* the entry dict registered for a call id
Entry(call_id) == heap[active_incidents[call_id]]

Range(f) == {f[x] : x \in DOMAIN f}

\* references held by the locals of running operations
HeldRefs == UNION {local[t].ref : t \in DOMAIN local}

\* the name of a new dict object: the first one no other live object has
NewRef(inUse) == CHOOSE r \in 0..Cardinality(inUse) :
                    r \notin inUse /\ \A q \in 0..(r - 1) : q \in inUse

\* the dict literal of process_emergency_call
NewEntry(inc, a, r, now) ==
    [incident |-> inc, assessment |-> a, resources |-> r,
     status |-> "DISPATCHED", timestamp |-> now]

\* the response dict of process_emergency_call
Response(inc, a, r) ==
    [call_id |-> inc.call_id,
     incident_type |-> a.incident_type,
     severity |-> a.severity_score,
     priority |-> a.medical_priority,
     dispatch_plan |-> r.dispatch_order,
     estimated_arrival |-> a.estimated_arrival_time,
     status |-> "DISPATCHED"]

\* variant: setdefault, an entry already registered is kept
StoreEntryIfAbsent(reg, objs, held, call_id, entry) ==
    IF call_id \in DOMAIN reg THEN <<reg, objs>>
    ELSE LET others == Range(reg) \cup held
             ref == NewRef(others)
         IN  <<[k \in DOMAIN reg \cup {call_id} |-> IF k = call_id THEN ref ELSE reg[k]],
               [o \in others \cup {ref} |-> IF o = ref THEN entry ELSE objs[o]]>>

\* variant: the registry is replaced by one holding the new entry only
StoreEntryAlone(reg, objs, held, call_id, entry) ==
    LET ref == NewRef(held)
    IN  <<[k \in {call_id} |-> ref],
          [o \in held \cup {ref} |-> IF o = ref THEN entry ELSE objs[o]]>>

\* self.active_incidents[call_id] = entry: binds the key to a new dict object;
\* <<active_incidents', heap'>>.  An object no key and no local refers to is gone.
StoreEntry(reg, objs, held, call_id, entry) ==
    LET others == {reg[k] : k \in DOMAIN reg \ {call_id}} \cup held
        ref == NewRef(others)
        reg2 == [k \in DOMAIN reg \cup {call_id} |-> IF k = call_id THEN ref ELSE reg[k]]
    IN  <<reg2, [o \in others \cup {ref} |-> IF o = ref THEN entry ELSE objs[o]]>>

\* variant: the status write also refreshes the entry's timestamp
WriteStatusAndTime(objs, ref, status) ==
    [objs EXCEPT ![ref].status = status, ![ref].timestamp = clock]

\* entry['status'] = status on the dict object ref
WriteStatus(objs, ref, status) == [objs EXCEPT ![ref].status = status]

\* variant: the status is set on a copy of the dict looked up, and the key
\* is bound to the copy
AssignStatusToCopy(reg, objs, held, call_id, ref, status) ==
    StoreEntry(reg, objs, held \ {ref}, call_id, [objs[ref] EXCEPT !.status = status])

\* self.active_incidents[call_id]['status'] = status, once the dict object
\* ref has been looked up under the key: <<active_incidents', heap'>>
AssignStatus(reg, objs, held, call_id, ref, status) ==
    <<reg, WriteStatus(objs, ref, status)>>

\* the record of a completed operation
Completed(op, call_id, status, ok, response, entry) ==
    [op |-> op, call_id |-> call_id, status |-> status, ok |-> ok,
     response |-> response, entry |-> entry]

----------------------------------------------------------------------------
(* Coordinator operations, one caller at a time *)

\* (the bounded quantifiers name the values of the method's local variables)
process_emergency_call(inc) ==
    \E a \in {_assess_incident(inc)} :
    \E r \in {_allocate_resources(a)} :
    \E stored \in {StoreEntry(active_incidents, heap, HeldRefs, inc.call_id,
                               NewEntry(inc, a, r, clock))} :
        /\ active_incidents' = stored[1]
        /\ heap' = stored[2]
        /\ last' = Completed("process_emergency_call", inc.call_id, "DISPATCHED", TRUE,
                             Some(Response(inc, a, r)), None)
        /\ UNCHANGED <<clock, threadVars>>

get_incident_status(call_id) ==
    /\ last' = Completed("get_incident_status", call_id, "", call_id \in DOMAIN active_incidents,
                         None,
                         IF call_id \in DOMAIN active_incidents
                         THEN Some(Entry(call_id)) ELSE None)
    /\ UNCHANGED <<registryVars, clock, threadVars>>

update_incident_status(call_id, status) ==
    IF call_id \in DOMAIN active_incidents
    THEN \E written \in {AssignStatus(active_incidents, heap, HeldRefs, call_id,
                                      active_incidents[call_id], status)} :
            /\ active_incidents' = written[1]
            /\ heap' = written[2]
            /\ last' = Completed("update_incident_status", call_id, status, TRUE, None, None)
            /\ UNCHANGED <<clock, threadVars>>
    ELSE /\ last' = Completed("update_incident_status", call_id, status, FALSE, None, None)
         /\ UNCHANGED <<registryVars, clock, threadVars>>

\* the wall clock read by datetime.now() advances
Tick ==
    /\ clock < MaxClock
    /\ clock' = clock + 1
    /\ UNCHANGED <<registryVars, last, threadVars>>

\* 'Patient has chest pain', 'pain'
CallDescriptions ==
    { Join(<< <<"P","a","t","i","e","n","t">>, <<"h","a","s">>,
               <<"c","h","e","s","t">>, <<"p","a","i","n">> >>),
      <<"p","a","i","n">> }

\* the incidents the call intake layer hands over at this moment
CallIncidents ==
    {EmergencyIncident(id, clock, d, n) :
        id \in CallIds, d \in CallDescriptions, n \in 0..MaxCallIndicators}

NoOperation == Completed("", <<>>, "", FALSE, None, None)

InitRegistry ==
    /\ active_incidents = <<>>
    /\ heap = <<>>
    /\ clock = 0
    /\ last = NoOperation

InitEngineIdle ==
    /\ incident = None
    /\ assessment = None
    /\ resources = None
    /\ phase = "idle"

InitThreadsIdle ==
    /\ pc = <<>>
    /\ local = <<>>
    /\ hist = <<>>

Init == InitRegistry /\ InitEngineIdle /\ InitThreadsIdle

Next ==
    \/ (\E inc \in CallIncidents : process_emergency_call(inc)) /\ UNCHANGED engineVars
    \/ (\E id \in CallIds : get_incident_status(id)) /\ UNCHANGED engineVars
    \/ (\E id \in CallIds, s \in Statuses : update_incident_status(id, s))
          /\ UNCHANGED engineVars
    \/ Tick /\ UNCHANGED engineVars

Spec == Init /\ [][Next]_vars

----------------------------------------------------------------------------
(* Engine harness: the two engines applied to every bounded input, and one
   call of the coordinator on a new registry *)

IncidentTypes == {"CARDIAC", "TRAUMA", "FIRE", "MEDICAL", "HAZMAT"}

\* the incidents handed to the assessment engine
Incidents ==
    {EmergencyIncident(Id1, 0, d, n) : d \in Descriptions, n \in 0..MaxIndicators}

\* IncidentAssessment values handed to the allocation engine directly
SuppliedAssessments ==
    {[incident_id |-> id, incident_type |-> t, severity_score |-> v,
      medical_priority |-> p,
      recommended_response |-> <<"Deploy specialized ", t, " response team">>,
      estimated_arrival_time |-> "5-8 minutes"] :
        id \in CallIds, t \in IncidentTypes, v \in 1..10, p \in {"HIGH"}}

InitEngine ==
    /\ InitRegistry
    /\ InitThreadsIdle
    /\ resources = None
    /\ \/ /\ incident \in {Some(inc) : inc \in Incidents}
          /\ assessment = None
          /\ phase = "start"
       \/ /\ incident = None
          /\ assessment \in {Some(a) : a \in SuppliedAssessments}
          /\ phase = "assessed"

AssessStep ==
    /\ phase = "start"
    /\ assessment' = Some(_assess_incident(incident[1]))
    /\ phase' = "assessed"
    /\ UNCHANGED <<incident, resources, registryVars, clock, last, threadVars>>

AllocateStep ==
    /\ phase = "assessed"
    /\ resources' = Some(_allocate_resources(assessment[1]))
    /\ phase' = "allocated"
    /\ UNCHANGED <<incident, assessment, registryVars, clock, last, threadVars>>

CallStep ==
    /\ phase = "allocated"
    /\ incident # None
    /\ process_emergency_call(incident[1])
    /\ phase' = "called"
    /\ UNCHANGED <<incident, assessment, resources>>

NextEngine == AssessStep \/ AllocateStep \/ CallStep

SpecEngine == InitEngine /\ [][NextEngine]_vars

----------------------------------------------------------------------------
(* Concurrent callers: the operations of one coordinator called from two
   threads, interleaved at the registry accesses.  The code takes no lock.
   The wall clock stands still during such a run. *)

Threads == {"t1", "t2"}

MaxCalls == 3          \* operations called in one run

\* the calls made concurrently are on one call id: two incident records
\* with different descriptions, and two statuses
ConcIncidents == {EmergencyIncident(Id1, clock, d, 0) : d \in CallDescriptions}
ConcStatuses == {"RESOLVED", "bogus"}

\* the locals of a thread between operations
NoLocals == [k |-> 0, ref |-> {}, entry |-> None]

\* an operation that has been called: arguments, the operations that had
\* returned before the call, and the results so far
Called(op, call_id, inc, status) ==
    [op |-> op, call_id |-> call_id, inc |-> inc, status |-> status,
     before |-> {k \in 1..Len(hist) : hist[k].done},
     done |-> FALSE, ok |-> FALSE, response |-> None, entry |-> None, ts |-> 0]

\* a thread calls one of the three operations
Invoke(t) ==
    /\ pc[t] = "idle"
    /\ Len(hist) < MaxCalls
    /\ \/ \E inc \in ConcIncidents :
             /\ hist' = Append(hist, Called("process_emergency_call", inc.call_id,
                                            Some(inc), "DISPATCHED"))
             /\ pc' = [pc EXCEPT ![t] = "build"]
       \/ \E st \in ConcStatuses :
             /\ hist' = Append(hist, Called("update_incident_status", Id1, None, st))
             /\ pc' = [pc EXCEPT ![t] = "check"]
       \/ /\ hist' = Append(hist, Called("get_incident_status", Id1, None, ""))
             /\ pc' = [pc EXCEPT ![t] = "read"]
    /\ local' = [local EXCEPT ![t].k = Len(hist) + 1]
    /\ UNCHANGED <<registryVars, clock, last, engineVars>>

\* process_emergency_call up to the evaluated dict literal: both engines run
\* and datetime.now() is read
Build(t) ==
    /\ pc[t] = "build"
    /\ \E a \in {_assess_incident(hist[local[t].k].inc[1])} :
       \E r \in {_allocate_resources(a)} :
          /\ local' = [local EXCEPT
                          ![t].entry = Some(NewEntry(hist[local[t].k].inc[1], a, r, clock))]
          /\ hist' = [hist EXCEPT ![local[t].k].ts = clock,
                                  ![local[t].k].response =
                                      Some(Response(hist[local[t].k].inc[1], a, r))]
    /\ pc' = [pc EXCEPT ![t] = "store"]
    /\ UNCHANGED <<registryVars, clock, last, engineVars>>

\* self.active_incidents[incident.call_id] = {...}
Store(t) ==
    /\ pc[t] = "store"
    /\ \E stored \in {StoreEntry(active_incidents, heap, HeldRefs,
                                  hist[local[t].k].call_id, local[t].entry[1])} :
          /\ active_incidents' = stored[1]
          /\ heap' = stored[2]
    /\ hist' = [hist EXCEPT ![local[t].k].ok = TRUE]
    /\ local' = [local EXCEPT ![t].entry = None]
    /\ pc' = [pc EXCEPT ![t] = "return"]
    /\ UNCHANGED <<clock, last, engineVars>>

\* if call_id in self.active_incidents
Check(t) ==
    /\ pc[t] = "check"
    /\ IF hist[local[t].k].call_id \in DOMAIN active_incidents
       THEN pc' = [pc EXCEPT ![t] = "lookup"]
       ELSE pc' = [pc EXCEPT ![t] = "return"]
    /\ UNCHANGED <<registryVars, clock, last, engineVars, local, hist>>

\* self.active_incidents[call_id], the dict the status is then set on
Lookup(t) ==
    /\ pc[t] = "lookup"
    /\ hist[local[t].k].call_id \in DOMAIN active_incidents
    /\ local' = [local EXCEPT ![t].ref = {active_incidents[hist[local[t].k].call_id]}]
    /\ pc' = [pc EXCEPT ![t] = "write"]
    /\ UNCHANGED <<registryVars, clock, last, engineVars, hist>>

\* ...['status'] = status on that dict; the reference to it is dropped
Write(t) ==
    /\ pc[t] = "write"
    /\ \E ref \in local[t].ref :
       \E written \in {AssignStatus(active_incidents, heap, HeldRefs,
                                    hist[local[t].k].call_id, ref,
                                    hist[local[t].k].status)} :
       \E live \in {Range(written[1]) \cup UNION {local[u].ref : u \in Threads \ {t}}} :
          /\ active_incidents' = written[1]
          /\ heap' = [o \in live |-> written[2][o]]
    /\ hist' = [hist EXCEPT ![local[t].k].ok = TRUE]
    /\ local' = [local EXCEPT ![t].ref = {}]
    /\ pc' = [pc EXCEPT ![t] = "return"]
    /\ UNCHANGED <<clock, last, engineVars>>

\* self.active_incidents.get(call_id)
Read(t) ==
    /\ pc[t] = "read"
    /\ hist' = [hist EXCEPT
                   ![local[t].k].ok = hist[local[t].k].call_id \in DOMAIN active_incidents,
                   ![local[t].k].entry =
                       IF hist[local[t].k].call_id \in DOMAIN active_incidents
                       THEN Some(Entry(hist[local[t].k].call_id)) ELSE None]
    /\ pc' = [pc EXCEPT ![t] = "return"]
    /\ UNCHANGED <<registryVars, clock, last, engineVars, local>>

\* the operation returns to its caller
Return(t) ==
    /\ pc[t] = "return"
    /\ hist' = [hist EXCEPT ![local[t].k].done = TRUE]
    /\ local' = [local EXCEPT ![t] = NoLocals]
    /\ pc' = [pc EXCEPT ![t] = "idle"]
    /\ UNCHANGED <<registryVars, clock, last, engineVars>>

InitConc ==
    /\ InitRegistry
    /\ InitEngineIdle
    /\ pc = [t \in Threads |-> "idle"]
    /\ local = [t \in Threads |-> NoLocals]
    /\ hist = <<>>

NextConc ==
    \/ \E t \in Threads : Invoke(t)
    \/ \E t \in Threads : Build(t)
    \/ \E t \in Threads : Store(t)
    \/ \E t \in Threads : Check(t)
    \/ \E t \in Threads : Lookup(t)
    \/ \E t \in Threads : Write(t)
    \/ \E t \in Threads : Read(t)
    \/ \E t \in Threads : Return(t)

SpecConc == InitConc /\ [][NextConc]_vars

----------------------------------------------------------------------------
(* Properties of the engines, checked under SpecEngine *)

\* the assessment held by the harness was computed by _assess_incident
Assessed == incident # None /\ phase \in {"assessed", "allocated", "called"}

Allocated == phase \in {"allocated", "called"}

\* the base severity the specification gives each incident type
BaseOf(t) == CASE t = "CARDIAC" -> 8 [] t = "TRAUMA" -> 7 [] t = "FIRE" -> 8
               [] t = "MEDICAL" -> 5

\* the priority band of an integer severity score
BandOf(score) == CASE score >= 8 -> "CRITICAL"
                   [] score \in {6, 7} -> "HIGH"
                   [] score \in {4, 5} -> "MEDIUM"
                   [] OTHER -> "LOW"

\* C1: the severity score of every assessment computed by _assess_incident,
\* of every registry entry and of every response is an integer in 1..10.
C1_SeverityInRange ==
    /\ Assessed => assessment[1].severity_score \in 1..10
    /\ \A id \in DOMAIN active_incidents :
           Entry(id).assessment.severity_score \in 1..10
    /\ last.response # None => last.response[1].severity \in 1..10

\* a default-type incident with so many indicators that the raw severity
\* passes 10 has been assessed and registered with severity 10
C1_Witness ==
    /\ phase = "called"
    /\ Len(incident[1].severity_indicators) >= 11
    /\ Entry(Id1).assessment.incident_type = "MEDICAL"
    /\ Entry(Id1).assessment.severity_score = 10
    /\ last.response[1].severity = 10

\* C2: the priority of every assessment computed by _assess_incident is the
\* band of its stored integer score (>= 8 CRITICAL, 6..7 HIGH, 4..5 MEDIUM,
\* else LOW), also when the raw severity ends in a half point.
C2_PriorityIsBandOfScore ==
    /\ Assessed => assessment[1].medical_priority = BandOf(assessment[1].severity_score)
    /\ \A id \in DOMAIN active_incidents :
           Entry(id).assessment.medical_priority
               = BandOf(Entry(id).assessment.severity_score)

\* a trauma incident with one indicator (raw severity 7.5): score 7, HIGH
C2_Witness ==
    /\ Assessed
    /\ Len(incident[1].severity_indicators) = 1
    /\ assessment[1].incident_type = "TRAUMA"
    /\ assessment[1].severity_score = 7
    /\ assessment[1].medical_priority = "HIGH"

CardiacGroup == {<<"c","a","r","d","i","a","c">>, <<"h","e","a","r","t">>,
                 <<"c","h","e","s","t"," ","p","a","i","n">>}
TraumaGroup == {<<"t","r","a","u","m","a">>, <<"a","c","c","i","d","e","n","t">>,
                <<"h","i","t">>, <<"c","r","a","s","h">>}
FireGroup == {<<"f","i","r","e">>, <<"s","m","o","k","e">>, <<"b","u","r","n">>}

\* some keyword of the group occurs in the lower-cased description
Present(group, description) ==
    \E lowered \in {Lower(description)} : \E kw \in group : Contains(lowered, kw)

\* C3: the incident type is CARDIAC if a cardiac keyword is present, else
\* TRAUMA if a trauma keyword is, else FIRE if a fire keyword is, else
\* MEDICAL, whatever the position and number of the keywords; the base
\* severity (the score of an incident without indicators) is 8, 7, 8, 5.
C3_FirstMatchWins ==
    Assessed =>
        LET d == incident[1].description
            t == assessment[1].incident_type
        IN  /\ t = "CARDIAC" <=> Present(CardiacGroup, d)
            /\ t = "TRAUMA" <=> ~Present(CardiacGroup, d) /\ Present(TraumaGroup, d)
            /\ t = "FIRE" <=> /\ ~Present(CardiacGroup, d)
                              /\ ~Present(TraumaGroup, d)
                              /\ Present(FireGroup, d)
            /\ t = "MEDICAL" <=> /\ ~Present(CardiacGroup, d)
                                 /\ ~Present(TraumaGroup, d)
                                 /\ ~Present(FireGroup, d)
            /\ incident[1].severity_indicators = <<>>
                   => assessment[1].severity_score = BaseOf(t)
            /\ d = CardiacDuringFire => t = "CARDIAC"
            /\ d = <<>> => t = "MEDICAL"

\* 'Smoke CRASH Heart': all three groups present, the cardiac keyword last
\* in the text, classified CARDIAC
C3_Witness ==
    /\ Assessed
    /\ incident[1].description = Join(<< <<"S","m","o","k","e">>, <<"C","R","A","S","H">>,
                                         <<"H","e","a","r","t">> >>)
    /\ assessment[1].incident_type = "CARDIAC"

\* the unit labels Unit-0 .. Unit-(n-1), written out
ExpectedLabels == << <<"U","n","i","t","-","0">>, <<"U","n","i","t","-","1">>,
                     <<"U","n","i","t","-","2">>, <<"U","n","i","t","-","3">>,
                     <<"U","n","i","t","-","4">> >>

\* the allocation the rule table of the specification gives
ExpectedAmbulances(t, v) ==
    CASE t = "CARDIAC" -> 2
      [] t = "TRAUMA" -> (IF v >= 7 THEN 2 ELSE 1)
      [] t = "FIRE" -> 2
      [] OTHER -> 1
ExpectedFireTrucks(t, v) ==
    CASE t = "CARDIAC" -> 0
      [] t = "TRAUMA" -> (IF v >= 8 THEN 1 ELSE 0)
      [] t = "FIRE" -> (IF v >= 8 THEN 3 ELSE 2)
      [] OTHER -> 0
ExpectedPersonnel(t, v) ==
    CASE t = "CARDIAC" -> 6
      [] t = "TRAUMA" -> (IF v >= 8 THEN 8 ELSE 4)
      [] t = "FIRE" -> 12
      [] OTHER -> 2

\* C4: for every assessment (every type, every score in 1..10) the
\* allocation is the one of the rule table, its cost is
\* ambulances*500 + fire_trucks*1000 + personnel*100, its dispatch order is
\* Unit-0 .. Unit-(n-1) with n = ambulances + fire trucks, and its id is
\* 'ALLOC-' followed by the incident id.
C4_AllocationTable ==
    Allocated =>
        LET t == assessment[1].incident_type
            v == assessment[1].severity_score
            r == resources[1]
            n == r.ambulances_required + r.fire_trucks_required
        IN  /\ r.ambulances_required = ExpectedAmbulances(t, v)
            /\ r.fire_trucks_required = ExpectedFireTrucks(t, v)
            /\ r.personnel_required = ExpectedPersonnel(t, v)
            /\ r.estimated_cost = 500 * ExpectedAmbulances(t, v)
                                   + 1000 * ExpectedFireTrucks(t, v)
                                   + 100 * ExpectedPersonnel(t, v)
            /\ r.dispatch_order = SubSeq(ExpectedLabels, 1, n)
            /\ Len(r.dispatch_order) = n
            /\ r.allocation_id = <<"A","L","L","O","C","-">> \o assessment[1].incident_id

\* assessment(type=TRAUMA, severity=7) handed to the allocation engine:
\* 2 ambulances, no fire truck, 4 staff, cost 1400, two units
C4_Witness ==
    /\ phase = "allocated"
    /\ incident = None
    /\ assessment[1].incident_type = "TRAUMA"
    /\ assessment[1].severity_score = 7
    /\ resources[1].ambulances_required = 2
    /\ resources[1].fire_trucks_required = 0
    /\ resources[1].estimated_cost = 1400
    /\ Len(resources[1].dispatch_order) = 2

C10_ScoreAtLeastBase ==
    /\ \A id \in DOMAIN active_incidents :
           LET a == Entry(id).assessment
               r == Entry(id).resources
           IN  /\ a.severity_score >= BaseOf(a.incident_type)
               /\ a.medical_priority # "LOW"
               /\ a.incident_type = "FIRE" => r.fire_trucks_required = 3
               /\ a.incident_type = "TRAUMA" => r.ambulances_required = 2
    /\ last.response # None =>
           /\ last.response[1].severity >= BaseOf(last.response[1].incident_type)
           /\ last.response[1].priority # "LOW"
           /\ last.response[1].incident_type = "FIRE"
                  => Len(last.response[1].dispatch_plan) = 5
           /\ last.response[1].incident_type = "TRAUMA"
                  => Len(last.response[1].dispatch_plan) \in {2, 3}

\* a fire incident without indicators went through the coordinator
C10_Witness ==
    /\ phase = "called"
    /\ incident[1].severity_indicators = <<>>
    /\ Entry(Id1).assessment.incident_type = "FIRE"
    /\ Entry(Id1).assessment.severity_score = 8
    /\ Entry(Id1).resources.fire_trucks_required = 3

----------------------------------------------------------------------------
(* Properties of the registry operations, checked under Spec *)

Registered == DOMAIN active_incidents

ProcessOp == "process_emergency_call"
GetOp == "get_incident_status"
UpdateOp == "update_incident_status"

\* the operation completed last wrote the status of the entry of id
WroteStatus(op, id) ==
    /\ op.call_id = id
    /\ op.op = ProcessOp \/ (op.op = UpdateOp /\ op.ok)

\* after the operation completed last, the entry of its call id has the
\* status that operation wrote, and a lookup returned the entry as it is
C5_LastOperationDecides ==
    /\ last.op = ProcessOp =>
           last.call_id \in Registered /\ Entry(last.call_id).status = "DISPATCHED"
    /\ last.op = UpdateOp /\ last.ok =>
           last.call_id \in Registered /\ Entry(last.call_id).status = last.status
    /\ last.op = UpdateOp /\ ~last.ok => last.call_id \notin Registered
    /\ last.op = GetOp /\ last.call_id \in Registered =>
           last.entry = Some(Entry(last.call_id))

\* a step keeps the status of every entry the completed operation did not write
C5_OthersKeepStatus ==
    \A id \in Registered :
        ~WroteStatus(last', id) =>
            id \in Registered' /\ Entry(id)'.status = Entry(id).status

\* C5: the status of the entry of a call id is the value written by the last
\* operation that succeeded on that id: DISPATCHED after
\* process_emergency_call (also when it overwrites an updated entry), s
\* after update_incident_status(id, s) for any s; get_incident_status
\* returns that entry.
C5_LastWriteWins == []C5_LastOperationDecides /\ [][C5_OthersKeepStatus]_vars

\* an entry registered earlier has just been given a status outside the
\* lifecycle set, while the other call id is registered as DISPATCHED
C5_Witness ==
    /\ last.op = UpdateOp /\ last.ok /\ last.status = "bogus"
    /\ Entry(last.call_id).status = "bogus"
    /\ Entry(last.call_id).timestamp < clock
    /\ \E id \in Registered \ {last.call_id} : Entry(id).status = "DISPATCHED"

\* what a step that completes update_incident_status or get_incident_status
\* may change
C6_UpdateStep ==
    /\ last'.op = UpdateOp =>
           /\ last'.ok <=> last'.call_id \in Registered
           /\ Registered' = Registered
           /\ ~last'.ok => active_incidents' = active_incidents /\ heap' = heap
           /\ \A id \in Registered :
                  IF id = last'.call_id
                  THEN [Entry(id)' EXCEPT !.status = Entry(id).status] = Entry(id)
                  ELSE Entry(id)' = Entry(id)
    /\ last'.op = GetOp =>
           /\ active_incidents' = active_incidents /\ heap' = heap
           /\ last'.call_id \notin Registered => last'.entry = None

\* C6: update_incident_status changes at most the status of the entry of
\* its call id: on an unknown id it returns false and leaves the registry
\* as it is; on a known id it returns true and leaves the incident,
\* assessment, resources and timestamp of that entry and every other entry
\* as they are.  get_incident_status of an unknown id returns None and
\* changes nothing.
C6_UpdateFrame == [][C6_UpdateStep]_vars

\* a status update succeeded on an entry made before the clock advanced,
\* with both call ids registered
C6_Witness ==
    /\ last.op = UpdateOp /\ last.ok /\ last.status = "RESOLVED"
    /\ Registered = CallIds
    /\ Entry(last.call_id).status = "RESOLVED"
    /\ Entry(last.call_id).timestamp < clock

\* every registered call id has one entry, and a lookup of it finds the entry
C7_EntryPresent ==
    /\ \A id \in Registered : active_incidents[id] \in DOMAIN heap
    /\ last.op = GetOp /\ last.call_id \in Registered => Len(last.entry) = 1
    /\ last.op = ProcessOp => last.call_id \in Registered

\* C7: registry entries are never removed: a call id processed once has an
\* entry in every later state, and the set of registered ids only grows.
C7_NeverRemoved == []C7_EntryPresent /\ [][Registered \subseteq Registered']_vars

\* both call ids are registered, one was processed again after the clock
\* advanced, and a lookup has just returned an entry
C7_Witness ==
    /\ Registered = CallIds
    /\ last.op = GetOp /\ Len(last.entry) = 1
    /\ \E id \in Registered : Entry(id).timestamp = 0
    /\ \E id \in Registered : Entry(id).timestamp > 0

----------------------------------------------------------------------------
(* Linearizability of the concurrent operations, checked under SpecConc *)

\* no operation is running
Quiescent == \A t \in Threads : pc[t] = "idle"

\* the registry as a caller sees it: call id -> entry
RegistryValue == [id \in DOMAIN active_incidents |-> Entry(id)]

\* one operation run alone on the registry value reg, as the one-caller
\* reference behaviour has it: <<registry after, ok, response, entry returned>>
Alone(reg, o) ==
    IF o.op = ProcessOp
    THEN LET a == _assess_incident(o.inc[1])
             r == _allocate_resources(a)
         IN  <<[id \in DOMAIN reg \cup {o.call_id} |->
                   IF id = o.call_id THEN NewEntry(o.inc[1], a, r, o.ts) ELSE reg[id]],
               TRUE, Some(Response(o.inc[1], a, r)), None>>
    ELSE IF o.op = UpdateOp
    THEN IF o.call_id \in DOMAIN reg
         THEN <<[reg EXCEPT ![o.call_id].status = o.status], TRUE, None, None>>
         ELSE <<reg, FALSE, None, None>>
    ELSE <<reg, o.call_id \in DOMAIN reg, None,
           IF o.call_id \in DOMAIN reg THEN Some(reg[o.call_id]) ELSE None>>

\* the operations of todo can run one after another from reg, each after all
\* operations that returned before it was called, with the results recorded
\* and ending in the registry of this state
RECURSIVE Linearized(_, _)
Linearized(reg, todo) ==
    IF todo = {} THEN reg = RegistryValue
    ELSE \E k \in todo :
            /\ hist[k].before \cap todo = {}
            /\ \E after \in {Alone(reg, hist[k])} :
                  /\ after[2] = hist[k].ok
                  /\ after[3] = hist[k].response
                  /\ after[4] = hist[k].entry
                  /\ Linearized(after[1], todo \ {k})

\* C8: whatever the interleaving of the registry accesses of concurrent
\* process_emergency_call, update_incident_status and get_incident_status
\* calls, the return values and the final registry are those of some
\* one-at-a-time order of the calls that respects their real-time order.
\* A status update that returned true after the only record of the id was
\* made is not lost: the entry shows the status of such an update.
C8_Linearizable ==
    Quiescent =>
        /\ Linearized(<<>>, DOMAIN hist)
        /\ LET records == {k \in DOMAIN hist : hist[k].op = ProcessOp}
               updates == {k \in DOMAIN hist : hist[k].op = UpdateOp /\ hist[k].ok}
           IN  Cardinality(records) = 1 /\ updates # {} =>
                   Entry(Id1).status \in {hist[k].status : k \in updates}

\* an update that found and looked up an entry wrote its status after a
\* concurrent process_emergency_call had replaced that entry: it returned
\* true and the registry shows DISPATCHED
C8_Witness ==
    /\ Quiescent
    /\ Len(hist) = 3
    /\ hist[1].op = ProcessOp /\ hist[2].op = UpdateOp /\ hist[3].op = ProcessOp
    /\ hist[1].call_id = Id1 /\ hist[2].call_id = Id1 /\ hist[3].call_id = Id1
    /\ hist[2].ok /\ hist[2].status = "RESOLVED"
    /\ 1 \in hist[2].before /\ 2 \notin hist[3].before /\ 3 \notin hist[2].before
    /\ hist[3].inc[1].description # hist[1].inc[1].description
    /\ Entry(Id1).status = "DISPATCHED"
    /\ Entry(Id1).incident = hist[3].inc[1]

====
